---- MODULE Spec2Model ----
(***************************************************************************)
(* processar_temperaturas (src/src/using_python.py): one pass over a       *)
(* ';'-delimited text file, keeping per station the minimum, the maximum,  *)
(* the sum and the number of readings, then a sorted, formatted report.    *)
(*                                                                         *)
(* Text is a sequence of one-character strings.  A float is a record       *)
(* [k, n, d]: k = "fin" is the rational n/d, k = "inf" is +infinity        *)
(* (n = 1) or -infinity (n = -1), k = "nan" is NaN.  The readings the      *)
(* model feeds are whole numbers and the counts stay far below 20, so      *)
(* every sum is exact in binary and every mean that lies half-way between  *)
(* two tenths is a multiple of 1/4, exact in binary too: rounding the      *)
(* rational is then what rounding the double gives.                        *)
(***************************************************************************)
EXTENDS Integers, Sequences, FiniteSets, Bags, TLC

VARIABLES
    pc,                 \* "loop": in the for loop of line 34; "done": returned; "raised": an exception left the function
    exc,                \* the exception that left the function, "none" while there is none
    nread,              \* rows the reader has yielded so far
    nfields,            \* len(row) of the row yielded last
    literal,            \* history: the row yielded last has a second field, and it is a float literal
    minimas, maximas, somas, medicoes,      \* the four maps of lines 26-29
    results, sorted_results, formatted_results,   \* lines 45, 52, 55
    ingested,           \* history: the bag of <<station, temperatura>> that went through lines 37-40
    left, right,        \* two tables built independently (SpecMerge)
    deferred,           \* records the table of SpecMerge has seen and the reordered table has not
    reordered           \* a table fed the same records in another order (SpecMerge)

vars == <<pc, exc, nread, nfields, literal, minimas, maximas, somas, medicoes,
          results, sorted_results, formatted_results, ingested,
          left, right, deferred, reordered>>

tableVars == <<minimas, maximas, somas, medicoes>>
reportVars == <<results, sorted_results, formatted_results>>
mergeVars == <<left, right, deferred, reordered>>

----------------------------------------------------------------------------
(* Bounds of the model *)

MaxLines == 3           \* rows read in one run
MaxFields == 3          \* fields of one line
MaxMerge == 3           \* records fed in one run of SpecMerge

\* the texts a field of an input line is drawn from
FieldTexts ==
    { <<>>, <<"A">>, <<"1", ".", "0">>, <<"-", "1", ".", "0">>, <<"n", "a", "n">> }

\* the texts of FieldTexts that are float literals
FloatLiterals == { <<"1", ".", "0">>, <<"-", "1", ".", "0">>, <<"n", "a", "n">> }

\* the texts a field after the second is drawn from
ExtraTexts == { <<"1", ".", "0">> }

----------------------------------------------------------------------------
(* Floats *)

Fin(n) == [k |-> "fin", n |-> n, d |-> 1]
PosInf == [k |-> "inf", n |-> 1, d |-> 1]
NegInf == [k |-> "inf", n |-> -1, d |-> 1]
NaN == [k |-> "nan", n |-> 0, d |-> 1]

Abs(i) == IF i < 0 THEN -i ELSE i

RECURSIVE Gcd(_, _)
Gcd(a, b) == IF b = 0 THEN a ELSE Gcd(b, a % b)

\* the rational n/d in lowest terms, d > 0
Rat(n, d) ==
    LET g == Gcd(Abs(n), d)
    IN  [k |-> "fin", n |-> n \div g, d |-> d \div g]

\* a < b on floats: false as soon as one side is NaN
FLess(a, b) ==
    CASE a.k = "nan" \/ b.k = "nan" -> FALSE
      [] a.k = "inf" /\ b.k = "inf" -> a.n < b.n
      [] a.k = "inf" -> a.n < 0
      [] b.k = "inf" -> b.n > 0
      [] OTHER -> a.n * b.d < b.n * a.d

\* a == b on floats: NaN equals nothing, itself included
FEq(a, b) ==
    /\ a.k # "nan"
    /\ b.k # "nan"
    /\ a.k = b.k
    /\ a.n * b.d = b.n * a.d

FLeq(a, b) == FLess(a, b) \/ FEq(a, b)

\* a + b on floats
FAdd(a, b) ==
    CASE a.k = "nan" \/ b.k = "nan" -> NaN
      [] a.k = "inf" /\ b.k = "inf" -> IF a.n = b.n THEN a ELSE NaN
      [] a.k = "inf" -> a
      [] b.k = "inf" -> b
      [] OTHER -> Rat(a.n * b.d + b.n * a.d, a.d * b.d)

\* a / c for a float a and a count c >= 1
FDivInt(a, c) ==
    IF a.k = "fin" THEN Rat(a.n, a.d * c) ELSE a

\* the builtin min(a, b): the first argument unless the second is smaller
PyMin(a, b) == IF FLess(b, a) THEN b ELSE a

\* the builtin max(a, b): the first argument unless the second is greater
PyMax(a, b) == IF FLess(a, b) THEN b ELSE a

----------------------------------------------------------------------------
(* Text: the csv reader and float() *)

Digits == {"0", "1", "2", "3", "4", "5", "6", "7", "8", "9"}

DigitVal(c) ==
    CASE c = "0" -> 0 [] c = "1" -> 1 [] c = "2" -> 2 [] c = "3" -> 3
      [] c = "4" -> 4 [] c = "5" -> 5 [] c = "6" -> 6 [] c = "7" -> 7
      [] c = "8" -> 8 [] c = "9" -> 9

\* the code point of a character of the model's alphabet
Ord(c) ==
    CASE c = "-" -> 45 [] c = "." -> 46 [] c = ";" -> 59
      [] c = "A" -> 65 [] c = "a" -> 97 [] c = "n" -> 110
      [] c \in Digits -> 48 + DigitVal(c)

Lower(c) == IF c = "A" THEN "a" ELSE c

RECURSIVE SplitAt(_, _, _)
\* the fields of a non-empty line: cur is the field being read
SplitAt(line, cur, delim) ==
    IF line = <<>> THEN <<cur>>
    ELSE IF Head(line) = delim THEN <<cur>> \o SplitAt(Tail(line), <<>>, delim)
    ELSE SplitAt(Tail(line), Append(cur, Head(line)), delim)

\* one row of csv.reader(file, delimiter = ';'): a blank line is the empty
\* row, any other line is cut at every delimiter
CsvRow(line) == IF line = <<>> THEN <<>> ELSE SplitAt(line, <<>>, ";")

RECURSIVE DecVal(_, _)
\* the number a string of digits writes, acc the digits read so far
DecVal(ds, acc) ==
    IF ds = <<>> THEN acc ELSE DecVal(Tail(ds), 10 * acc + DigitVal(Head(ds)))

RECURSIVE Pow10(_)
Pow10(e) == IF e = 0 THEN 1 ELSE 10 * Pow10(e - 1)

AllDigits(t) == \A i \in 1..Len(t) : t[i] \in Digits

\* float(text) for a text without sign: digits with an optional fraction, or
\* nan in any case.  [ok |-> FALSE] stands for ValueError.
ParseUnsigned(t) ==
    LET dots == {i \in 1..Len(t) : t[i] = "."}
    IN  IF Len(t) = 3 /\ [i \in 1..3 |-> Lower(t[i])] = <<"n", "a", "n">>
        THEN [ok |-> TRUE, val |-> NaN]
        ELSE IF dots = {}
        THEN IF t # <<>> /\ AllDigits(t)
             THEN [ok |-> TRUE, val |-> Fin(DecVal(t, 0))]
             ELSE [ok |-> FALSE, val |-> NaN]
        ELSE IF Cardinality(dots) = 1
        THEN LET p == CHOOSE i \in dots : TRUE
                 ip == SubSeq(t, 1, p - 1)
                 fp == SubSeq(t, p + 1, Len(t))
             IN  IF Len(t) > 1 /\ AllDigits(ip) /\ AllDigits(fp)
                 THEN [ok |-> TRUE,
                       val |-> Rat(DecVal(ip, 0) * Pow10(Len(fp)) + DecVal(fp, 0),
                                   Pow10(Len(fp)))]
                 ELSE [ok |-> FALSE, val |-> NaN]
        ELSE [ok |-> FALSE, val |-> NaN]

FNeg(a) == [a EXCEPT !.n = -a.n]

\* float(text)
ParseFloat(t) ==
    IF t # <<>> /\ Head(t) = "-"
    THEN LET r == ParseUnsigned(Tail(t))
         IN  [ok |-> r.ok, val |-> FNeg(r.val)]
    ELSE ParseUnsigned(t)

----------------------------------------------------------------------------
(* The input lines *)

RECURSIVE Join(_)
\* the fields of fs with a ';' between two of them
Join(fs) ==
    IF Len(fs) = 0 THEN <<>>
    ELSE IF Len(fs) = 1 THEN fs[1]
    ELSE fs[1] \o <<";">> \o Join(Tail(fs))

\* the lines of n fields
FieldSeqs(n) == { fs \in [1..n -> FieldTexts] : \A i \in 3..n : fs[i] \in ExtraTexts }

Lines == { Join(fs) : fs \in UNION { FieldSeqs(n) : n \in 0..MaxFields } }

----------------------------------------------------------------------------
(* The four maps: a map is a function whose domain is the keys it holds *)

EmptyMap == <<>>

\* m[key] = v
Put(m, key, v) ==
    [x \in DOMAIN m \cup {key} |-> IF x = key THEN v ELSE m[x]]

\* m[key] on a defaultdict or a Counter read with a default
Get(m, key, default) == IF key \in DOMAIN m THEN m[key] ELSE default

\* line 37: medicoes.update([nome_da_station])
UpdMedicoes(m, key) == Put(m, key, Get(m, key, 0) + 1)

\* a slip at line 38: the map is written only when the reading is smaller
UpdMinimasIfSmaller(m, key, t) ==
    IF FLess(t, Get(m, key, PosInf)) THEN Put(m, key, t) ELSE m

\* line 38: minimas[k] = min(minimas[k], temperatura), +inf when k is new
UpdMinimas(m, key, t) == Put(m, key, PyMin(Get(m, key, PosInf), t))

\* a slip at line 39: max(temperatura, maximas[k]), the arguments swapped
UpdMaximasSwapped(m, key, t) == Put(m, key, PyMax(t, Get(m, key, NegInf)))

\* line 39: maximas[k] = max(maximas[k], temperatura), -inf when k is new
UpdMaximas(m, key, t) == Put(m, key, PyMax(Get(m, key, NegInf), t))

\* a slip at line 40: somas[k] = temperatura
UpdSomasOverwrite(m, key, t) == Put(m, key, t)

\* line 40: somas[k] += temperatura, 0.0 when k is new
UpdSomas(m, key, t) == Put(m, key, FAdd(Get(m, key, Fin(0)), t))

\* a table: the four maps together
Table(mi, ma, so, me) == [minimas |-> mi, maximas |-> ma, somas |-> so, medicoes |-> me]

EmptyTable == Table(EmptyMap, EmptyMap, EmptyMap, EmptyMap)

\* lines 37-40 on a table
Ingest(t, key, temp) ==
    Table(UpdMinimas(t.minimas, key, temp),
          UpdMaximas(t.maximas, key, temp),
          UpdSomas(t.somas, key, temp),
          UpdMedicoes(t.medicoes, key))

\* a slip in lines 35-40: the station is counted before its reading is converted
BodyCountFirst(t, row) ==
    IF Len(row) < 1 THEN [exc |-> "IndexError", table |-> t, key |-> <<>>, temp |-> NaN]
    ELSE LET nome_da_station == row[1]
             counted == [t EXCEPT !.medicoes = UpdMedicoes(t.medicoes, nome_da_station)]
         IN  IF Len(row) < 2
             THEN [exc |-> "IndexError", table |-> counted,
                   key |-> nome_da_station, temp |-> NaN]
             ELSE LET f == ParseFloat(row[2])
                  IN  IF ~f.ok
                      THEN [exc |-> "ValueError", table |-> counted,
                            key |-> nome_da_station, temp |-> NaN]
                      ELSE [exc |-> "none",
                            table |-> Ingest(t, nome_da_station, f.val),
                            key |-> nome_da_station, temp |-> f.val]

\* lines 35-40, the body of the loop, on a table and a row: the table after
\* it and the exception that ended it
Body(t, row) ==
    IF Len(row) < 1 THEN [exc |-> "IndexError", table |-> t, key |-> <<>>, temp |-> NaN]
    ELSE LET nome_da_station == row[1]
         IN  IF Len(row) < 2
             THEN [exc |-> "IndexError", table |-> t, key |-> nome_da_station, temp |-> NaN]
             ELSE LET f == ParseFloat(row[2])
                  IN  IF ~f.ok
                      THEN [exc |-> "ValueError", table |-> t,
                            key |-> nome_da_station, temp |-> NaN]
                      ELSE [exc |-> "none",
                            table |-> Ingest(t, nome_da_station, f.val),
                            key |-> nome_da_station, temp |-> f.val]

----------------------------------------------------------------------------
(* The report *)

\* lines 45-48: station |-> (min, mean, max)
Snapshot(t) ==
    [station \in DOMAIN t.medicoes |->
        <<Get(t.minimas, station, PosInf),
          FDivInt(Get(t.somas, station, Fin(0)), t.medicoes[station]),
          Get(t.maximas, station, NegInf)>>]

RECURSIVE StrLess(_, _)
\* a < b on str: by code point, a proper prefix first
StrLess(a, b) ==
    IF b = <<>> THEN FALSE
    ELSE IF a = <<>> THEN TRUE
    ELSE IF Ord(Head(a)) < Ord(Head(b)) THEN TRUE
    ELSE IF Ord(Head(a)) > Ord(Head(b)) THEN FALSE
    ELSE StrLess(Tail(a), Tail(b))

RECURSIVE SortedKeysDesc(_)
\* a slip at line 52: sorted(..., reverse = True)
SortedKeysDesc(S) ==
    IF S = {} THEN <<>>
    ELSE LET least == CHOOSE x \in S : \A y \in S \ {x} : StrLess(x, y)
         IN  SortedKeysDesc(S \ {least}) \o <<least>>

RECURSIVE SortedKeys(_)
\* the keys of a set in the order sorted() gives them
SortedKeys(S) ==
    IF S = {} THEN <<>>
    ELSE LET least == CHOOSE x \in S : \A y \in S \ {x} : StrLess(x, y)
         IN  <<least>> \o SortedKeys(S \ {least})

\* line 52: dict(sorted(results.items())), a dict being the sequence of its items
SortedItems(res) ==
    LET ks == SortedKeys(DOMAIN res)
    IN  [i \in 1..Len(ks) |-> <<ks[i], res[ks[i]]>>]

\* n/d rounded to the nearest integer, a tie to the even one (d > 0)
RoundHalfEven(n, d) ==
    LET q == n \div d
        r == n % d
    IN  IF 2 * r < d THEN q
        ELSE IF 2 * r > d THEN q + 1
        ELSE IF q % 2 = 0 THEN q ELSE q + 1

\* f"{x:.1f}"
Fmt1(x) ==
    CASE x.k = "nan" -> "nan"
      [] x.k = "inf" -> IF x.n > 0 THEN "inf" ELSE "-inf"
      [] OTHER ->
            LET tenths == RoundHalfEven(10 * Abs(x.n), x.d)
            IN  (IF x.n < 0 THEN "-" ELSE "")
                    \o ToString(tenths \div 10) \o "." \o ToString(tenths % 10)

\* lines 55-56: station |-> "min/mean/max", in the order of sorted_results
FormatItems(items) ==
    [i \in 1..Len(items) |->
        <<items[i][1],
          Fmt1(items[i][2][1]) \o "/" \o Fmt1(items[i][2][2]) \o "/" \o Fmt1(items[i][2][3])>>]

----------------------------------------------------------------------------
(* The run of processar_temperaturas *)

CurrentTable == Table(minimas, maximas, somas, medicoes)

Init ==
    /\ pc = "loop"
    /\ exc = "none"
    /\ nread = 0
    /\ nfields = 0
    /\ literal = FALSE
    /\ minimas = EmptyMap
    /\ maximas = EmptyMap
    /\ somas = EmptyMap
    /\ medicoes = EmptyMap
    /\ results = EmptyMap
    /\ sorted_results = <<>>
    /\ formatted_results = <<>>
    /\ ingested = EmptyBag
    /\ left = EmptyTable
    /\ right = EmptyTable
    /\ deferred = EmptyBag
    /\ reordered = EmptyTable

\* a slip of indentation: lines 45-56 inside the loop of line 34
IterateReporting(line) ==
    /\ pc = "loop"
    /\ nread < MaxLines
    /\ \E row \in {CsvRow(line)} : \E b \in {Body(CurrentTable, row)} :
           /\ nread' = nread + 1
           /\ nfields' = Len(row)
           /\ literal' = (Len(row) >= 2 /\ row[2] \in FloatLiterals)
           /\ minimas' = b.table.minimas
           /\ maximas' = b.table.maximas
           /\ somas' = b.table.somas
           /\ medicoes' = b.table.medicoes
           /\ exc' = b.exc
           /\ IF b.exc = "none"
              THEN /\ pc' = "loop"
                   /\ ingested' = ingested (+) SetToBag({<<b.key, b.temp>>})
                   /\ results' = Snapshot(b.table)
                   /\ sorted_results' = SortedItems(results')
                   /\ formatted_results' = FormatItems(sorted_results')
              ELSE /\ pc' = "raised"
                   /\ UNCHANGED <<ingested, reportVars>>
    /\ UNCHANGED mergeVars

\* one iteration of the loop of line 34 on the next line of the file
Iterate(line) ==
    /\ pc = "loop"
    /\ nread < MaxLines
    /\ \E row \in {CsvRow(line)} : \E b \in {Body(CurrentTable, row)} :
           /\ nread' = nread + 1
           /\ nfields' = Len(row)
           /\ literal' = (Len(row) >= 2 /\ row[2] \in FloatLiterals)
           /\ minimas' = b.table.minimas
           /\ maximas' = b.table.maximas
           /\ somas' = b.table.somas
           /\ medicoes' = b.table.medicoes
           /\ exc' = b.exc
           /\ IF b.exc = "none"
              THEN /\ pc' = "loop"
                   /\ ingested' = ingested (+) SetToBag({<<b.key, b.temp>>})
              ELSE /\ pc' = "raised"
                   /\ UNCHANGED ingested
    /\ UNCHANGED <<reportVars, mergeVars>>

\* the reader is exhausted: lines 42-58
Finish ==
    /\ pc = "loop"
    /\ results' = Snapshot(CurrentTable)
    /\ sorted_results' = SortedItems(results')
    /\ formatted_results' = FormatItems(sorted_results')
    /\ pc' = "done"
    /\ UNCHANGED <<exc, nread, nfields, literal, tableVars, ingested, mergeVars>>

Next ==
    \/ \E line \in Lines : Iterate(line)
    \/ Finish

Spec == Init /\ [][Next]_vars

\* the file is finite: unless an exception ends the run first, the reader is
\* exhausted after finitely many rows and lines 42-58 run
FairSpec == Spec /\ WF_vars(Finish)

----------------------------------------------------------------------------
(* Two tables built side by side, and the same records in another order *)

\* the stations and readings of the records fed in SpecMerge
MergeKeys == { <<"A">>, <<"a">> }
MergeTemps == { Fin(1), Fin(-1), NaN }

\* two tables merged key by key: pairwise min, pairwise max, summed sum,
\* summed count; a key one table lacks has the state of a key never seen
Merge(t1, t2) ==
    LET ks == DOMAIN t1.medicoes \cup DOMAIN t2.medicoes
    IN  Table([x \in ks |-> PyMin(Get(t1.minimas, x, PosInf), Get(t2.minimas, x, PosInf))],
              [x \in ks |-> PyMax(Get(t1.maximas, x, NegInf), Get(t2.maximas, x, NegInf))],
              [x \in ks |-> FAdd(Get(t1.somas, x, Fin(0)), Get(t2.somas, x, Fin(0)))],
              [x \in ks |-> Get(t1.medicoes, x, 0) + Get(t2.medicoes, x, 0)])

\* lines 37-40 on the table of the run and on the left table
FeedLeft(key, temp) ==
    /\ nread < MaxMerge
    /\ \E t \in {Ingest(CurrentTable, key, temp)} :
           /\ minimas' = t.minimas
           /\ maximas' = t.maximas
           /\ somas' = t.somas
           /\ medicoes' = t.medicoes
    /\ left' = Ingest(left, key, temp)
    /\ deferred' = deferred (+) SetToBag({<<key, temp>>})
    /\ ingested' = ingested (+) SetToBag({<<key, temp>>})
    /\ nread' = nread + 1
    /\ UNCHANGED <<pc, exc, nfields, literal, reportVars, right, reordered>>

\* lines 37-40 on the table of the run and on the right table
FeedRight(key, temp) ==
    /\ nread < MaxMerge
    /\ \E t \in {Ingest(CurrentTable, key, temp)} :
           /\ minimas' = t.minimas
           /\ maximas' = t.maximas
           /\ somas' = t.somas
           /\ medicoes' = t.medicoes
    /\ right' = Ingest(right, key, temp)
    /\ deferred' = deferred (+) SetToBag({<<key, temp>>})
    /\ ingested' = ingested (+) SetToBag({<<key, temp>>})
    /\ nread' = nread + 1
    /\ UNCHANGED <<pc, exc, nfields, literal, reportVars, left, reordered>>

\* lines 37-40 on the reordered table, for any one record it has not seen
Replay(rec) ==
    /\ BagIn(rec, deferred)
    /\ reordered' = Ingest(reordered, rec[1], rec[2])
    /\ deferred' = deferred (-) SetToBag({rec})
    /\ UNCHANGED <<pc, exc, nread, nfields, literal, tableVars, reportVars, ingested, left, right>>

NextMerge ==
    \/ \E key \in MergeKeys, temp \in MergeTemps : FeedLeft(key, temp)
    \/ \E key \in MergeKeys, temp \in MergeTemps : FeedRight(key, temp)
    \/ \E key \in MergeKeys, temp \in MergeTemps : Replay(<<key, temp>>)

SpecMerge == Init /\ [][NextMerge]_vars

----------------------------------------------------------------------------
(* What has been ingested, read off the history *)

IngestedKeys == { r[1] : r \in BagToSet(ingested) }

\* the readings ingested under key
TempsOf(key) == { r[2] : r \in { x \in BagToSet(ingested) : x[1] = key } }

RECURSIVE CountIn(_, _)
\* how many records of the set S the bag B holds, copies counted
CountIn(S, B) ==
    IF S = {} THEN 0
    ELSE LET r == CHOOSE x \in S : TRUE
         IN  CopiesIn(r, B) + CountIn(S \ {r}, B)

\* the number of records ingested under key
CountOf(key) == CountIn({ x \in BagToSet(ingested) : x[1] = key }, ingested)

RECURSIVE NumerIn(_, _)
\* the total of the whole-number readings of the records of S, copies counted
NumerIn(S, B) ==
    IF S = {} THEN 0
    ELSE LET r == CHOOSE x \in S : TRUE
         IN  CopiesIn(r, B) * r[2].n + NumerIn(S \ {r}, B)

\* the total of the readings ingested under key: NaN as soon as one is NaN
TotalOf(key) ==
    IF NaN \in TempsOf(key) THEN NaN
    ELSE Fin(NumerIn({ x \in BagToSet(ingested) : x[1] = key }, ingested))

\* a < b byte by byte: at the first place they differ, or a a proper prefix of b
ByteLess(a, b) ==
    \E i \in 1..(Len(b)) :
        /\ i <= Len(a) + 1
        /\ \A j \in 1..(i - 1) : a[j] = b[j]
        /\ (i = Len(a) + 1 \/ Ord(a[i]) < Ord(b[i]))

----------------------------------------------------------------------------
(* The claims *)

\* C1: for every key ingested at least once, every reading ingested under it
\* lies between min(k) and max(k), and min(k) and max(k) are readings
\* ingested under it (no +inf / -inf sentinel outlives the first ingest).
C1_MinMaxExact ==
    \A key \in DOMAIN medicoes :
        medicoes[key] > 0 =>
            /\ \A v \in TempsOf(key) :
                   FLeq(Get(minimas, key, PosInf), v) /\ FLeq(v, Get(maximas, key, NegInf))
            /\ Get(minimas, key, PosInf) \in TempsOf(key)
            /\ Get(maximas, key, NegInf) \in TempsOf(key)

\* C2: count(k) is the number of records ingested under k, sum(k) is the
\* total of the readings ingested under k, and the mean of the report is
\* sum(k) / count(k).
C2_CountSumMean ==
    /\ DOMAIN medicoes = IngestedKeys
    /\ \A key \in IngestedKeys :
           /\ medicoes[key] = CountOf(key)
           /\ key \in DOMAIN somas
           /\ somas[key] = TotalOf(key)
    /\ pc = "done" =>
           \A key \in IngestedKeys :
               /\ key \in DOMAIN results
               /\ LET mean == results[key][2]
                      total == TotalOf(key)
                  IN  IF total.k = "fin"
                      THEN /\ mean.k = "fin"
                           /\ mean.n * CountOf(key) = total.n * mean.d
                      ELSE mean = total

\* a run that returned after ingesting three readings of one station, not all equal
C2_Witness ==
    /\ pc = "done"
    /\ \E key \in DOMAIN medicoes :
           /\ medicoes[key] = 3
           /\ Cardinality(TempsOf(key)) = 2
           /\ somas[key].k = "fin"

\* C3: the keys of the formatted result are strictly increasing byte-wise,
\* none twice, one for each distinct key ingested.
C3_SortedKeys ==
    pc = "done" =>
        /\ \A i \in 1..Len(formatted_results) : \A j \in 1..Len(formatted_results) :
               i < j => ByteLess(formatted_results[i][1], formatted_results[j][1])
        /\ { formatted_results[i][1] : i \in 1..Len(formatted_results) } = IngestedKeys
        /\ Len(formatted_results) = Cardinality(IngestedKeys)

\* a run that returned a report of three stations
C3_Witness ==
    /\ pc = "done"
    /\ Len(formatted_results) >= 3

\* C4: an iteration on a line without a second field, or whose second field
\* is not a float literal, raises, and leaves the four maps as they were; and no
\* iteration that raises changes the four maps.
C4_FailedLineLeavesTable ==
    [][(pc = "loop" /\ nread' = nread + 1) =>
          /\ ~literal' =>
                 /\ pc' = "raised"
                 /\ exc' \in {"IndexError", "ValueError"}
          /\ pc' = "raised" =>
                 /\ minimas' = minimas
                 /\ maximas' = maximas
                 /\ somas' = somas
                 /\ medicoes' = medicoes
                 /\ ingested' = ingested]_vars

\* a line whose value is not a float literal raised after two lines were ingested
C4_Witness ==
    /\ pc = "raised"
    /\ exc = "ValueError"
    /\ nread = 3
    /\ Cardinality(DOMAIN medicoes) = 2

\* C5: a line whose key is empty is never ingested: the empty string is
\* never a key of the table.
C5_EmptyKeyRejected == <<>> \notin DOMAIN medicoes

\* C6: no ingest is performed with NaN, and no sum is NaN.
C6_NaNRejected ==
    /\ \A r \in BagToSet(ingested) : r[2].k # "nan"
    /\ \A key \in DOMAIN somas : somas[key].k # "nan"

\* C7: a line with a second delimiter raises and is not ingested.
C7_ExtraFieldRejected == nfields > 2 => pc = "raised"

C9_RunEndsOnce ==
    /\ [](pc \in {"loop", "raised"} =>
              /\ results = EmptyMap
              /\ sorted_results = <<>>
              /\ formatted_results = <<>>)
    /\ [](pc = "raised" <=> exc # "none")
    /\ [](pc = "done" =>
              /\ BagCardinality(ingested) = nread
              /\ DOMAIN results = IngestedKeys
              /\ Len(formatted_results) = Cardinality(IngestedKeys))
    /\ [][pc = "loop"]_vars
    /\ <>(pc \in {"done", "raised"})

\* a run that raised on its third line
C9_Witness ==
    /\ pc = "raised"
    /\ nread = 3
    /\ BagCardinality(ingested) = 2

\* C10: the four maps have the same keys, the keys ingested so far, each
\* with a count of at least one; the report has one entry per key, and none
\* when nothing was ingested.
C10_SameKeys ==
    /\ DOMAIN medicoes = IngestedKeys
    /\ DOMAIN minimas = IngestedKeys
    /\ DOMAIN maximas = IngestedKeys
    /\ DOMAIN somas = IngestedKeys
    /\ \A key \in DOMAIN medicoes : medicoes[key] >= 1
    /\ Cardinality(DOMAIN medicoes) <= BagCardinality(ingested)
    /\ pc = "done" =>
           /\ DOMAIN results = DOMAIN medicoes
           /\ Len(sorted_results) = Cardinality(DOMAIN medicoes)
           /\ Len(formatted_results) = Cardinality(DOMAIN medicoes)
           /\ nread = 0 => (results = EmptyMap /\ formatted_results = <<>>)

\* two stations after three lines, one of them fed only NaN
C10_Witness ==
    /\ pc = "loop"
    /\ nread = 3
    /\ Cardinality(DOMAIN medicoes) = 2
    /\ \E key \in DOMAIN medicoes : TempsOf(key) = {NaN}

====
